---- MODULE Spec2Model ----
(***************************************************************************)
(* Model of the device list component ESPHomeDevicesList                   *)
(* (src/src/devices/devices-list.ts, src/unnamed/part_000): the            *)
(* subscribeDevices callback that reconciles each snapshot into the view   *)
(* list _devices and the "new" set _new, the mount / teardown that         *)
(* surround it, the persisted preferences and the handlers of the user     *)
(* interface; of the main view ESPHomeMainView and of the build script     *)
(* (both in src/script/build).                                             *)
(*                                                                         *)
(* Encoding of JavaScript values                                           *)
(*  - a string is a tuple of character codes ("a" is <<97>>); the empty    *)
(*    tuple stands for both "" and undefined, which the code only ever     *)
(*    tells apart by truthiness (a || b, if (x));                          *)
(*  - a device is a record; an importable device is the one that has the   *)
(*    field package_import_url;                                            *)
(*  - a snapshot is a record whose `fields` lists which of `configured`    *)
(*    and `importable` are present on the object;                          *)
(*  - _devices is [defined, list]: defined = FALSE is `undefined`.         *)
(***************************************************************************)
EXTENDS Integers, Sequences, FiniteSets, TLC

VARIABLES
    _devices,       \* @state() _devices?: Array<ImportableDevice | ConfiguredDevice>
    _new,           \* private _new = new Set<string>()
    _onlineStatus,  \* @state() _onlineStatus: Record<string, boolean>
    _devicesUnsub,  \* TRUE while the subscription made by connectedCallback is active
    _onlineStatusUnsub, \* TRUE while the online-status subscription made by connectedCallback is active
    devices,        \* the snapshot object last handed to the callback, as the callback left it
    delivered,      \* parity of the number of non-null snapshots processed
    again,          \* TRUE when the snapshot processed last was the one processed before it
    res,            \* the map last handed to the online-status callback
    wasNew,         \* _new as the last processed snapshot that had `configured` left it
    pending,        \* callbacks suspended at `await this.updateComplete`, oldest first
    scrolled,       \* name handed to _scrollToDevice by the latest run of the callback, <<>> if none
    thrown,         \* TRUE when the latest run of the callback ended in an exception
    refreshed,      \* configurations handed to _metadataRefresher.add by the latest run
    showDiscoveredDevices, \* @property() showDiscoveredDevices
    _searchValue,   \* @state() _searchValue (this._search.value in devices-list.ts)
    variant,        \* which of the three copies of the class is running
    row,            \* the device handed to _filter, to _getDeviceStatus or to a table handler
    kept,           \* what _filter(row) returned: "true" or "false", "none" before the call
    status,         \* what _getDeviceStatus(row) returned, "none" before the call
    _viewMode,      \* @state() _viewMode
    _sortBy,        \* @state() _sortBy
    _sortDirection, \* @state() _sortDirection
    _groupBy,       \* @state() _groupBy (part_000 only)
    localStorage,   \* window.localStorage: per key <<>> (no entry) or <<the string stored>>
    effects,        \* what the latest run of the device callback did, in the order it did it
    handled,        \* the DOM event the latest user-interface handler was called with
    fired,          \* the events the latest user-interface handler dispatched, in order
    ESPHomeMainView_showDiscoveredDevices, \* ESPHomeMainView: @state() showDiscoveredDevices
    pc,             \* script/build: the command to run next
    files,          \* script/build: the paths of the working tree that exist
    exitStatus,     \* script/build: "running", then the exit status "0" or "1"
    bundle          \* what rollup wrote: "none", "complete", or "unresolved imports"

\* the variables of rendering
rendering == <<showDiscoveredDevices, _searchValue, variant, row, kept, status>>

\* the persisted user-interface preferences and the fields they are loaded into
preferences == <<_viewMode, _sortBy, _sortDirection, _groupBy, localStorage>>

\* the variables of the user-interface handlers
interacting == <<handled, fired, ESPHomeMainView_showDiscoveredDevices>>

\* the variables of script/build
building == <<pc, files, exitStatus, bundle>>

vars ==
    <<_devices, _new, _onlineStatus, _devicesUnsub, _onlineStatusUnsub, devices, delivered,
      again, res, wasNew, pending, scrolled, thrown, refreshed, rendering, preferences,
      effects, interacting, building>>

----------------------------------------------------------------------------
(* Bounds of the model *)

MaxConfigured == 2
MaxImportable == 2
MaxPending == 1

----------------------------------------------------------------------------
(* Strings *)

\* String.prototype.toLocaleLowerCase, on ASCII letters
toLocaleLowerCase(s) ==
    [i \in DOMAIN s |-> IF s[i] \in 65..90 THEN s[i] + 32 ELSE s[i]]

\* String.prototype.localeCompare: negative, zero or positive.  The code only
\* applies it to lower-cased strings; on lower-case ASCII letters the locale
\* order is the alphabetical one, a proper prefix sorting first.
RECURSIVE localeCompare(_, _)
localeCompare(a, b) ==
    IF a = <<>> /\ b = <<>> THEN 0
    ELSE IF a = <<>> THEN -1
    ELSE IF b = <<>> THEN 1
    ELSE IF Head(a) < Head(b) THEN -1
    ELSE IF Head(a) > Head(b) THEN 1
    ELSE localeCompare(Tail(a), Tail(b))

\* Array.prototype.sort(compareFn): stable, ascending by compareFn, a function
\* of two elements.  Each element in turn is inserted behind the elements that
\* do not compare greater than it.
sort(arr, compareFn) ==
    LET RECURSIVE insert(_, _)
        insert(x, sorted) ==
            IF sorted = <<>> THEN <<x>>
            ELSE IF compareFn[x, Head(sorted)] < 0 THEN <<x>> \o sorted
            ELSE <<Head(sorted)>> \o insert(x, Tail(sorted))
        RECURSIVE from(_, _)
        from(i, sorted) ==
            IF i > Len(arr) THEN sorted
            ELSE from(i + 1, insert(arr[i], sorted))
    IN  from(1, <<>>)

----------------------------------------------------------------------------
(* Devices and snapshots *)

ConfiguredDevice(name, friendly_name, loaded_integrations, configuration) ==
    [name |-> name, friendly_name |-> friendly_name,
     loaded_integrations |-> loaded_integrations, configuration |-> configuration]

ImportableDevice(name, ignored) ==
    [name |-> name, ignored |-> ignored, package_import_url |-> "github://esphome/example.yaml"]

\* private _isImportable = (item) => "package_import_url" in item
_isImportable(item) == "package_import_url" \in DOMAIN item

\* The configured devices a snapshot may carry: "B" (no friendly name, metadata
\* not yet computed) and "Z" with the friendly name "Ab".
ConfiguredDevices ==
    { ConfiguredDevice(<<66>>, <<>>, <<>>, "B.yaml"),
      ConfiguredDevice(<<90>>, <<65, 98>>, <<"api">>, "Z.yaml") }

\* The importable devices a snapshot may carry: "Z" and "A", ignored or not.
ImportableDevices ==
    { ImportableDevice(n, ig) : n \in {<<90>>, <<65>>}, ig \in BOOLEAN }

\* `name` is unique within each collection
UniqueNames(list) ==
    \A i, j \in DOMAIN list : list[i].name = list[j].name => i = j

ListsOf(S, max) ==
    { list \in UNION { [1..n -> S] : n \in 0..max } : UniqueNames(list) }

ConfiguredLists == ListsOf(ConfiguredDevices, MaxConfigured)
ImportableLists == ListsOf(ImportableDevices, MaxImportable)

\* The non-null payloads of the device subscription: each of the two fields
\* may be missing from the object.
Snapshots ==
    { [fields |-> f,
       configured |-> IF "configured" \in f THEN c ELSE <<>>,
       importable |-> IF "importable" \in f THEN i ELSE <<>>] :
         f \in SUBSET {"configured", "importable"},
         c \in ConfiguredLists, i \in ImportableLists }

NoSnapshot == [fields |-> {}, configured |-> <<>>, importable |-> <<>>]

\* The keys of the online-status map: the configuration file names
Configurations == { d.configuration : d \in ConfiguredDevices }

\* A Record<string, boolean>, by what reading each key gives: "true", "false",
\* or "undefined" for a key the object does not have
OnlineStatusMap(b, z) == [c \in Configurations |-> IF c = "B.yaml" THEN b ELSE z]

\* {}
NoStatus == OnlineStatusMap("undefined", "undefined")

\* The maps the online-status subscription delivers: { "B.yaml": true } and
\* { "Z.yaml": false }
DeliveredStatus ==
    { OnlineStatusMap("true", "undefined"), OnlineStatusMap("undefined", "false") }

Undefined == [defined |-> FALSE, list |-> <<>>]
Defined(list) == [defined |-> TRUE, list |-> list]

----------------------------------------------------------------------------
(* The subscribeDevices callback, up to `this._devices = newList` *)

\* Variant: only the configured entries of the old list are looked at
NoOldNamedConfiguredOnly(old_list, d) ==
    Len(SelectSeq(old_list, LAMBDA old : ~_isImportable(old) /\ old.name = d.name)) = 0

\* Variant: the old list is not looked at, every device counts as new
NoOldNamedAlways(old_list, d) == TRUE

\* this._devices.filter((old) => old.name === d.name).length === 0
NoOldNamed(old_list, d) ==
    Len(SelectSeq(old_list, LAMBDA old : old.name = d.name)) = 0

\* Variant: newName keeps the first new name instead of the last
RECURSIVE forEachFirst(_, _, _, _)
forEachFirst(configured, i, old, acc) ==
    IF i > Len(configured) THEN acc
    ELSE LET d == configured[i]
             isNew == old.defined /\ NoOldNamed(old.list, d)
         IN  forEachFirst(configured, i + 1, old,
                 [newDevices |-> IF isNew THEN acc.newDevices \cup {d.name}
                                          ELSE acc.newDevices,
                  newName    |-> IF isNew /\ acc.newName = <<>> THEN d.name
                                                                ELSE acc.newName,
                  newList    |-> Append(acc.newList, d)])

\* Variant: newName is assigned outside the `if`, for every device
RECURSIVE forEachEveryName(_, _, _, _)
forEachEveryName(configured, i, old, acc) ==
    IF i > Len(configured) THEN acc
    ELSE LET d == configured[i]
             isNew == old.defined /\ NoOldNamed(old.list, d)
         IN  forEachEveryName(configured, i + 1, old,
                 [newDevices |-> IF isNew THEN acc.newDevices \cup {d.name}
                                          ELSE acc.newDevices,
                  newName    |-> d.name,
                  newList    |-> Append(acc.newList, d)])

\* Variant: the test `this._devices &&` is missing, an absent view list
\* counts as an empty one
RECURSIVE forEachUnguarded(_, _, _, _)
forEachUnguarded(configured, i, old, acc) ==
    IF i > Len(configured) THEN acc
    ELSE LET d == configured[i]
             isNew == NoOldNamed(old.list, d)
         IN  forEachUnguarded(configured, i + 1, old,
                 [newDevices |-> IF isNew THEN acc.newDevices \cup {d.name}
                                          ELSE acc.newDevices,
                  newName    |-> IF isNew THEN d.name ELSE acc.newName,
                  newList    |-> Append(acc.newList, d)])

\* devices.configured.forEach((d) => { ... }), from element i on; acc holds
\* the locals newDevices, newName and newList
RECURSIVE forEach(_, _, _, _)
forEach(configured, i, old, acc) ==
    IF i > Len(configured) THEN acc
    ELSE LET d == configured[i]
             isNew == old.defined /\ NoOldNamed(old.list, d)
         IN  forEach(configured, i + 1, old,
                 [newDevices |-> IF isNew THEN acc.newDevices \cup {d.name}
                                          ELSE acc.newDevices,
                  newName    |-> IF isNew THEN d.name ELSE acc.newName,
                  newList    |-> Append(acc.newList, d)])

\* const a_name = a.friendly_name || a.name
FriendlyOrName(a) == IF a.friendly_name # <<>> THEN a.friendly_name ELSE a.name

\* Variant: the comparator looks at name only
CompareConfiguredByName(a, b) ==
    localeCompare(toLocaleLowerCase(a.name), toLocaleLowerCase(b.name))

\* the comparator of newList.sort
CompareConfigured(a, b) ==
    localeCompare(toLocaleLowerCase(FriendlyOrName(a)),
                  toLocaleLowerCase(FriendlyOrName(b)))

\* Number(a.ignored)
Number(b) == IF b THEN 1 ELSE 0

\* Variant: the comparator skips the `ignored` test
CompareImportableByName(a, b) ==
    localeCompare(toLocaleLowerCase(a.name), toLocaleLowerCase(b.name))

\* the comparator of devices.importable.sort
CompareImportable(a, b) ==
    IF a.ignored # b.ignored
    THEN Number(a.ignored) - Number(b.ignored)
    ELSE localeCompare(toLocaleLowerCase(a.name), toLocaleLowerCase(b.name))

\* Variant: the configured devices are put first
MergeConfiguredFirst(importable, newList) == newList \o importable

\* Variant: the entries of the old view list that the snapshot no longer
\* names are kept behind the new ones
MergeKeepOld(importable, newList) ==
    importable \o newList \o
        SelectSeq(_devices.list,
                  LAMBDA old : \A i \in DOMAIN newList : newList[i].name # old.name)

\* Variant: the configured devices are spread in twice
MergeTwice(importable, newList) == importable \o newList \o newList

\* newList = [...devices.importable.sort(...), ...newList]
Merge(importable, newList) == importable \o newList

\* Variant: the test of loaded_integrations is missing
MetadataLoopEvery(hasConfigured, configured) ==
    IF hasConfigured
    THEN [thrown |-> FALSE,
          added  |-> { configured[i].configuration : i \in DOMAIN configured }]
    ELSE [thrown |-> TRUE, added |-> {}]

\* for (const device of devices.configured)
\*   if (device.loaded_integrations?.length === 0) this._metadataRefresher.add(device.configuration)
\* Iterating an absent devices.configured throws a TypeError.
MetadataLoop(hasConfigured, configured) ==
    IF hasConfigured
    THEN [thrown |-> FALSE,
          added  |-> { configured[i].configuration :
                         i \in { j \in DOMAIN configured :
                                   Len(configured[j].loaded_integrations) = 0 } }]
    ELSE [thrown |-> TRUE, added |-> {}]

----------------------------------------------------------------------------
(* Rendering: _filter and _getDeviceStatus *)

\* String.prototype.toLowerCase, on ASCII letters
toLowerCase(s) ==
    [i \in DOMAIN s |-> IF s[i] \in 65..90 THEN s[i] + 32 ELSE s[i]]

\* String.prototype.indexOf(searchValue): the position, from 0, of the first
\* occurrence of searchValue, -1 when there is none
indexOf(s, searchValue) ==
    LET RECURSIVE at(_)
        at(i) ==
            IF i + Len(searchValue) > Len(s) THEN -1
            ELSE IF SubSeq(s, i + 1, i + Len(searchValue)) = searchValue THEN i
            ELSE at(i + 1)
    IN  at(0)

\* The three copies of the class ESPHomeDevicesList, by where each starts
Variants == { "devices-list.ts:49", "devices-list.ts:689", "part_000:65" }

\* A device as _filter reads it: `name`, and those of friendly_name, comment
\* and project_name that are in `present`; an importable device also has
\* package_import_url.
FilterItem(name, present, friendly_name, importable) ==
    [k \in {"name"} \cup present \cup (IF importable THEN {"package_import_url"} ELSE {}) |->
        CASE k = "name" -> name
          [] k = "friendly_name" -> friendly_name
          [] k = "comment" -> <<99>>
          [] k = "project_name" -> <<65, 98>>
          [] OTHER -> "github://esphome/example.yaml"]

\* The devices handed to _filter: named "A" or "b", the friendly name "" or
\* "aB", the comment "c", the project name "Ab"
FilterItems ==
    { FilterItem(n, p, f, i) :
        n \in {<<65>>, <<98>>},
        p \in SUBSET {"friendly_name", "comment", "project_name"},
        f \in {<<>>, <<97, 66>>},
        i \in BOOLEAN }

\* The search strings: "", "a", "B", "ab", "c", "ba"
SearchValues == { <<>>, <<97>>, <<66>>, <<97, 98>>, <<99>>, <<98, 97>> }

\* Variant: the search is matched before the discovered devices are hidden
_filterMatchFirst(it) ==
    IF _searchValue # <<>>
    THEN \E k \in {"name", "friendly_name", "comment", "project_name"} :
            /\ k \in DOMAIN it
            /\ it[k] # <<>>
            /\ indexOf(toLowerCase(it[k]), toLowerCase(_searchValue)) >= 0
    ELSE ~(~showDiscoveredDevices /\ _isImportable(it))

\* private _filter(item): boolean
_filter(it) ==
    IF ~showDiscoveredDevices /\ _isImportable(it) THEN FALSE
    ELSE IF _searchValue # <<>>
    THEN LET searchValue == toLowerCase(_searchValue)
         IN  IF indexOf(toLowerCase(it.name), searchValue) >= 0 THEN TRUE
             ELSE IF /\ "friendly_name" \in DOMAIN it
                     /\ it.friendly_name # <<>>
                     /\ indexOf(toLowerCase(it.friendly_name), searchValue) >= 0 THEN TRUE
             ELSE IF /\ "comment" \in DOMAIN it
                     /\ it.comment # <<>>
                     /\ indexOf(toLowerCase(it.comment), searchValue) >= 0 THEN TRUE
             ELSE IF /\ "project_name" \in DOMAIN it
                     /\ it.project_name # <<>>
                     /\ indexOf(toLowerCase(it.project_name), searchValue) >= 0 THEN TRUE
             ELSE FALSE
    ELSE TRUE

\* A device as _getDeviceStatus reads it: an importable one, or a configured
\* one with its configuration and update_available ("true", "false", or
\* "undefined" when the field is missing)
StatusDevice(importable, configuration, update_available) ==
    IF importable
    THEN [name |-> <<65>>, package_import_url |-> "github://esphome/example.yaml"]
    ELSE [name |-> <<65>>, configuration |-> configuration,
          update_available |-> update_available]

StatusDevices ==
    { StatusDevice(i, c, u) :
        i \in BOOLEAN, c \in Configurations, u \in {"true", "false", "undefined"} }

\* Every online-status map over the configurations
StatusMaps ==
    { OnlineStatusMap(b, z) : b, z \in {"true", "false", "undefined"} }

\* Variant: the online state is looked at before update_available
_getDeviceStatusOnlineFirst(device) ==
    IF _isImportable(device) THEN "discovered"
    ELSE IF _onlineStatus[device.configuration] = "true" THEN "online"
    ELSE IF variant = "part_000:65" /\ device.update_available = "true" THEN "update-available"
    ELSE "offline"

\* private _getDeviceStatus(device): string.  Only the copy in part_000 has
\* the test of configured.update_available.
_getDeviceStatus(device) ==
    IF _isImportable(device) THEN "discovered"
    ELSE LET isOnline == _onlineStatus[device.configuration]
         IN  IF variant = "part_000:65" /\ device.update_available = "true"
             THEN "update-available"
             ELSE IF isOnline = "true" THEN "online" ELSE "offline"

\* no device handed to _filter or _getDeviceStatus yet
NoItem == [name |-> <<>>]

----------------------------------------------------------------------------
(* Preferences, cards and the effects of the device callback *)

\* The keys of the persisted preferences
Keys ==
    { "esphome.devices.viewMode", "esphome.devices.sortBy",
      "esphome.devices.sortDirection", "esphome.devices.groupBy" }

\* an empty localStorage
NoPreferences == [k \in Keys |-> <<>>]

\* const saved = localStorage.getItem(key); if (saved) this.field = saved
Saved(key, current) ==
    IF localStorage[key] # <<>> /\ localStorage[key][1] # ""
    THEN localStorage[key][1]
    ELSE current

\* the two view modes of a copy of the class, the first its initial one
ViewModes(v) == IF v = "part_000:65" THEN <<"list", "grid">> ELSE <<"cards", "table">>

\* render(): the cards are in the document unless the table view is shown
CardsShown ==
    IF variant = "part_000:65" THEN _viewMode # "list" ELSE _viewMode # "table"

\* Variant: the scroll is requested whether or not the card was found
_scrollToDeviceUnchecked(name) == <<"scrollIntoView">>

\* private _scrollToDevice(name): elem is the first
\* esphome-configured-device-card[data-name='name'] of the rendered view;
\* if (elem) elem.scrollIntoView(...)
_scrollToDevice(name) ==
    IF /\ CardsShown
       /\ \E i \in DOMAIN _devices.list :
            /\ ~_isImportable(_devices.list[i])
            /\ _devices.list[i].name = name
            /\ _filter(_devices.list[i])
    THEN <<"scrollIntoView">>
    ELSE <<>>

\* the calls of this._metadataRefresher.add the loop makes, as one effect
Reported(loop) == IF loop.added # {} THEN <<"add">> ELSE <<>>

----------------------------------------------------------------------------
(* Actions *)

\* the fields of rendering as the class initialisers leave them, no call made
InitRendering ==
    /\ showDiscoveredDevices = FALSE
    /\ _searchValue = <<>>
    /\ variant = "devices-list.ts:49"
    /\ row = NoItem
    /\ kept = "none"
    /\ status = "none"

\* the reconciler's fields, the online-status map apart, as the class
\* initialisers leave them
InitReconciling ==
    /\ _devices = Undefined
    /\ _new = {}
    /\ _devicesUnsub = FALSE
    /\ _onlineStatusUnsub = FALSE
    /\ devices = NoSnapshot
    /\ delivered = 0
    /\ again = FALSE
    /\ res = NoStatus
    /\ wasNew = {}
    /\ pending = <<>>
    /\ scrolled = <<>>
    /\ thrown = FALSE
    /\ refreshed = {}

\* the preference fields as the class initialisers of the copy v leave them
InitFields(v) ==
    /\ _viewMode = ViewModes(v)[1]
    /\ _sortBy = "name"
    /\ _sortDirection = "asc"
    /\ _groupBy = ""

\* A DOM event as the handlers read it: its type, and e.detail.id and
\* e.detail.action where the type has them
DOMEvent(type, id, action) == [type |-> type, id |-> id, action |-> action]

NoEvent == DOMEvent("none", <<>>, "")

\* no handler of the user interface has run, the main view as constructed
InitInteracting ==
    /\ effects = <<>>
    /\ handled = NoEvent
    /\ fired = <<>>
    /\ ESPHomeMainView_showDiscoveredDevices = FALSE

\* script/build has run to its end in a working tree that has the
\* esphome-webui-components submodule
Built ==
    /\ pc = "exit"
    /\ files = { "raw_package", "node_modules", "esphome-webui-components",
                 "esphome-webui-components/package.json",
                 "esphome-webui-components/src",
                 "esphome-webui-components/node_modules",
                 "esphome-webui-components/dist", "esphome_dashboard" }
    /\ exitStatus = "0"
    /\ bundle = "complete"

Init ==
    /\ InitReconciling
    /\ _onlineStatus = NoStatus
    /\ InitRendering
    /\ InitFields("devices-list.ts:49")
    /\ localStorage = NoPreferences
    /\ InitInteracting
    /\ Built

\* connectedCallback(): the saved preferences are loaded (the group-by
\* column in part_000 only), then
\* this._devicesUnsub = subscribeDevices(async (devices) => ...) and
\* this._onlineStatusUnsub = subscribeOnlineStatus(...)
connectedCallback ==
    /\ ~_devicesUnsub
    /\ _viewMode' = Saved("esphome.devices.viewMode", _viewMode)
    /\ _sortBy' = Saved("esphome.devices.sortBy", _sortBy)
    /\ _sortDirection' = Saved("esphome.devices.sortDirection", _sortDirection)
    /\ _groupBy' = IF variant = "part_000:65"
                   THEN Saved("esphome.devices.groupBy", _groupBy)
                   ELSE _groupBy
    /\ UNCHANGED <<rendering, localStorage, effects, interacting, building>>
    /\ _devicesUnsub' = TRUE
    /\ _onlineStatusUnsub' = TRUE
    /\ UNCHANGED <<_devices, _new, _onlineStatus, devices, delivered, again, res, wasNew,
                   pending, scrolled, thrown, refreshed>>

\* Variant: the online-status subscription is left active
ReleaseDevicesOnly == _onlineStatusUnsub

\* if (this._onlineStatusUnsub) this._onlineStatusUnsub()
ReleaseOnlineStatus == FALSE

\* disconnectedCallback(): if (this._devicesUnsub) this._devicesUnsub()
\*                         if (this._onlineStatusUnsub) this._onlineStatusUnsub()
disconnectedCallback ==
    /\ UNCHANGED <<rendering, preferences, effects, interacting, building>>
    /\ _devicesUnsub
    /\ _devicesUnsub' = FALSE
    /\ _onlineStatusUnsub' = ReleaseOnlineStatus
    /\ UNCHANGED <<_devices, _new, _onlineStatus, devices, delivered, again, res, wasNew,
                   pending, scrolled, thrown, refreshed>>

\* Variant: the guard is missing and the null payload is taken for a snapshot
\* without devices
DevicesCallbackNullAsEmpty ==
    /\ UNCHANGED <<rendering, preferences, interacting, building>>
    /\ effects' = <<"install">>
    /\ _devicesUnsub
    /\ _devices' = Defined(<<>>)
    /\ _new' = {}
    /\ scrolled' = <<>>
    /\ thrown' = FALSE
    /\ refreshed' = {}
    /\ UNCHANGED <<_onlineStatus, _devicesUnsub, _onlineStatusUnsub,
                   devices, delivered, again, res, wasNew, pending>>

\* Variant: the null payload is assigned to the view list
DevicesCallbackNullAssigned ==
    /\ UNCHANGED <<rendering, preferences, interacting, building>>
    /\ effects' = <<"install">>
    /\ _devicesUnsub
    /\ _devices' = Undefined
    /\ _new' = {}
    /\ scrolled' = <<>>
    /\ thrown' = FALSE
    /\ refreshed' = {}
    /\ UNCHANGED <<_onlineStatus, _devicesUnsub, _onlineStatusUnsub,
                   devices, delivered, again, res, wasNew, pending>>

\* The callback delivered a null payload: if (!devices) return
DevicesCallbackNull ==
    /\ UNCHANGED <<rendering, preferences, interacting, building>>
    /\ effects' = <<>>
    /\ _devicesUnsub
    /\ scrolled' = <<>>
    /\ thrown' = FALSE
    /\ refreshed' = {}
    /\ UNCHANGED <<_devices, _new, _onlineStatus, _devicesUnsub, _onlineStatusUnsub,
                   devices, delivered, again, res, wasNew, pending>>

\* The callback delivered the snapshot s: it runs to its end or, when a new
\* device was found, to `await this.updateComplete`.  acc holds the locals
\* after the forEach, sorted is newList after newList.sort, importable is
\* devices.importable after its in-place sort.
DevicesCallback(s) ==
    \E acc \in { IF "configured" \in s.fields
                 THEN forEach(s.configured, 1, _devices,
                              [newDevices |-> {}, newName |-> <<>>, newList |-> <<>>])
                 ELSE [newDevices |-> {}, newName |-> <<>>, newList |-> <<>>] } :
    \E sorted \in { sort(acc.newList,
                         [a, b \in ConfiguredDevices |-> CompareConfigured(a, b)]) } :
    \E importable \in { IF "importable" \in s.fields
                        THEN sort(s.importable,
                                  [a, b \in ImportableDevices |-> CompareImportable(a, b)])
                        ELSE s.importable } :
    \E loop \in { MetadataLoop("configured" \in s.fields, s.configured) } :
        /\ _devicesUnsub
        /\ acc.newName # <<>> => Len(pending) < MaxPending
        /\ _devices' = Defined(IF "importable" \in s.fields
                               THEN Merge(importable, sorted)
                               ELSE sorted)
        /\ _new' = acc.newDevices
        /\ devices' = [s EXCEPT !.importable = importable]
        /\ delivered' = 1 - delivered
        /\ again' = (_devices.defined /\ [s EXCEPT !.importable = importable] = devices)
        /\ wasNew' = IF "configured" \in s.fields THEN acc.newDevices ELSE wasNew
        /\ scrolled' = <<>>
        /\ IF acc.newName # <<>>
           THEN /\ pending' = Append(pending, [newName |-> acc.newName,
                                               configured |-> s.configured])
                /\ thrown' = FALSE
                /\ refreshed' = {}
                /\ effects' = <<"install">>
           ELSE /\ pending' = pending
                /\ thrown' = loop.thrown
                /\ refreshed' = loop.added
                /\ effects' = <<"install">> \o Reported(loop)
        /\ UNCHANGED <<_onlineStatus, _devicesUnsub, _onlineStatusUnsub, res, rendering,
                       preferences, interacting, building>>

\* Variant: the resumed callback reads the snapshot delivered last, not its own
ResumeLatestSnapshot ==
    /\ UNCHANGED <<rendering, preferences, interacting, building>>
    /\ pending # <<>>
    /\ LET loop == MetadataLoop("configured" \in devices.fields, devices.configured)
       IN  /\ scrolled' = Head(pending).newName
           /\ thrown' = loop.thrown
           /\ refreshed' = loop.added
           /\ effects' = <<"updateComplete">> \o _scrollToDevice(Head(pending).newName)
                            \o Reported(loop)
    /\ pending' = Tail(pending)
    /\ UNCHANGED <<_devices, _new, _onlineStatus, _devicesUnsub, _onlineStatusUnsub,
                   devices, delivered, again, res, wasNew>>

\* The oldest suspended callback resumes after `await this.updateComplete`:
\* this._scrollToDevice(newName), then the metadata loop.  newName is only
\* set inside `if (devices.configured)`, so devices.configured is present.
Resume ==
    /\ UNCHANGED <<rendering, preferences, interacting, building>>
    /\ pending # <<>>
    /\ LET k == Head(pending)
           loop == MetadataLoop(TRUE, k.configured)
       IN  /\ scrolled' = k.newName
           /\ thrown' = loop.thrown
           /\ refreshed' = loop.added
           /\ effects' = <<"updateComplete">> \o _scrollToDevice(k.newName)
                            \o Reported(loop)
    /\ pending' = Tail(pending)
    /\ UNCHANGED <<_devices, _new, _onlineStatus, _devicesUnsub, _onlineStatusUnsub,
                   devices, delivered, again, res, wasNew>>

\* Variant: the delivered map is merged into the one held
OnlineStatusMerged(r) ==
    [c \in Configurations |-> IF r[c] # "undefined" THEN r[c] ELSE _onlineStatus[c]]

\* this._onlineStatus = res
OnlineStatusReplaced(r) == r

\* subscribeOnlineStatus((res) => { this._onlineStatus = res; }), delivering r
OnlineStatusCallback(r) ==
    /\ UNCHANGED <<rendering, preferences, effects, interacting, building>>
    /\ _onlineStatusUnsub
    /\ _onlineStatus' = OnlineStatusReplaced(r)
    /\ res' = r
    /\ UNCHANGED <<_devices, _new, _devicesUnsub, _onlineStatusUnsub, devices, delivered,
                   again, wasNew, pending, scrolled, thrown, refreshed>>

Next ==
    \/ connectedCallback
    \/ disconnectedCallback
    \/ DevicesCallbackNull
    \/ \E s \in Snapshots : DevicesCallback(s)
    \/ Resume

\* The device subscription alone
Spec == Init /\ [][Next]_vars

\* The snapshots that carry no importable devices
ConfiguredSnapshots == { s \in Snapshots : "importable" \notin s.fields }

NextDeliveries ==
    \/ connectedCallback
    \/ disconnectedCallback
    \/ DevicesCallbackNull
    \/ \E s \in ConfiguredSnapshots : DevicesCallback(s)
    \/ Resume
    \/ \E r \in DeliveredStatus : OnlineStatusCallback(r)

\* The two subscriptions together, their deliveries interleaved in any order
SpecDeliveries == Init /\ [][NextDeliveries]_vars

\* Every list of at most max elements of S, an element possibly more than once
RepeatingLists(S, max) == UNION { [1..n -> S] : n \in 0..max }

\* Snapshots in which a collection may name a device twice: the configured
\* "Z" and the importable "Z"
RepeatingSnapshots ==
    { [fields |-> {"configured", "importable"}, configured |-> c, importable |-> i] :
        c \in RepeatingLists({ d \in ConfiguredDevices : d.name = <<90>> }, MaxConfigured),
        i \in RepeatingLists({ImportableDevice(<<90>>, FALSE)}, MaxImportable) }

NextRepeating ==
    \/ connectedCallback
    \/ disconnectedCallback
    \/ DevicesCallbackNull
    \/ \E s \in RepeatingSnapshots : DevicesCallback(s)
    \/ Resume

\* The device subscription delivering what the backend lists, names repeated
\* or not
SpecRepeating == Init /\ [][NextRepeating]_vars

----------------------------------------------------------------------------
(* _filter and _getDeviceStatus on their own *)

\* the reconciler's variables, the online-status map apart
reconciling ==
    <<_devices, _new, _devicesUnsub, _onlineStatusUnsub, devices, delivered,
      again, res, wasNew, pending, scrolled, thrown, refreshed>>

\* render(): this._devices.filter((item) => this._filter(item)), for one item
Filter ==
    /\ kept = "none"
    /\ kept' = IF _filter(row) THEN "true" ELSE "false"
    /\ UNCHANGED <<reconciling, _onlineStatus, showDiscoveredDevices, _searchValue,
                   variant, row, status, preferences, effects, interacting, building>>

\* every device, flag and search string
InitFilter ==
    /\ InitReconciling
    /\ _onlineStatus = NoStatus
    /\ showDiscoveredDevices \in BOOLEAN
    /\ _searchValue \in SearchValues
    /\ variant \in Variants
    /\ row \in FilterItems
    /\ kept = "none"
    /\ status = "none"
    /\ InitFields(variant)
    /\ localStorage = NoPreferences
    /\ InitInteracting
    /\ Built

SpecFilter == InitFilter /\ [][Filter]_vars

\* status=${this._getDeviceStatus(row)}, for one device
GetDeviceStatus ==
    /\ status = "none"
    /\ status' = _getDeviceStatus(row)
    /\ UNCHANGED <<reconciling, _onlineStatus, showDiscoveredDevices, _searchValue,
                   variant, row, kept, preferences, effects, interacting, building>>

\* every device, online-status map and copy of the class
InitStatus ==
    /\ InitReconciling
    /\ _onlineStatus \in StatusMaps
    /\ showDiscoveredDevices = FALSE
    /\ _searchValue = <<>>
    /\ variant \in Variants
    /\ row \in StatusDevices
    /\ kept = "none"
    /\ status = "none"
    /\ InitFields(variant)
    /\ localStorage = NoPreferences
    /\ InitInteracting
    /\ Built

SpecStatus == InitStatus /\ [][GetDeviceStatus]_vars

----------------------------------------------------------------------------
(* The handlers of the user interface *)

\* render(): the header controls are in the document.  The copies in
\* devices-list.ts show a page without them while the view list is empty.
ToolbarShown ==
    /\ _devicesUnsub
    /\ _devices.defined
    /\ variant # "part_000:65" => _devices.list # <<>>

\* render(): <esphome-data-table> is in the document: the table view is
\* chosen and a device passes the filter
TableShown ==
    /\ ToolbarShown
    /\ ~CardsShown
    /\ \E i \in DOMAIN _devices.list : _filter(_devices.list[i])

\* The search field changed: @value-changed in part_000 assigns
\* this._searchValue, @input in devices-list.ts renders again with
\* this._search.value
valueChanged(value) ==
    /\ ToolbarShown
    /\ _searchValue' = value
    /\ handled' = DOMEvent("value-changed", <<>>, "")
    /\ fired' = <<>>
    /\ UNCHANGED <<reconciling, _onlineStatus, showDiscoveredDevices, variant, row, kept,
                   status, preferences, effects, ESPHomeMainView_showDiscoveredDevices,
                   building>>

\* the keys of the columns that are `sortable: true`
SortableColumns(v) ==
    CASE v = "devices-list.ts:49" -> {"name", "statusText"}
      [] v = "devices-list.ts:689" -> {"name", "status"}
      [] OTHER -> {"name", "status", "configuration"}

\* the values of the options of the "Group by" <select>
GroupColumns == {"", "status", "deviceType", "name"}

\* Variant: the chosen mode is not written to localStorage
_setViewModeNotStored(mode) ==
    /\ ToolbarShown
    /\ _viewMode' = mode
    /\ handled' = DOMEvent("click", <<>>, "")
    /\ fired' = <<>>
    /\ UNCHANGED <<reconciling, _onlineStatus, rendering, _sortBy, _sortDirection, _groupBy,
                   localStorage, effects, ESPHomeMainView_showDiscoveredDevices, building>>

\* private _setViewMode(mode), from a click on one of the two view buttons
_setViewMode(mode) ==
    /\ ToolbarShown
    /\ _viewMode' = mode
    /\ localStorage' = [localStorage EXCEPT !["esphome.devices.viewMode"] = <<mode>>]
    /\ handled' = DOMEvent("click", <<>>, "")
    /\ fired' = <<>>
    /\ UNCHANGED <<reconciling, _onlineStatus, rendering, _sortBy, _sortDirection, _groupBy,
                   effects, ESPHomeMainView_showDiscoveredDevices, building>>

\* private _handleTableSort(e), e.detail = { column, direction }
_handleTableSort(column, direction) ==
    /\ TableShown
    /\ _sortBy' = column
    /\ _sortDirection' = direction
    /\ localStorage' = [localStorage EXCEPT !["esphome.devices.sortBy"] = <<column>>,
                                            !["esphome.devices.sortDirection"] = <<direction>>]
    /\ handled' = DOMEvent("sorting-changed", <<>>, "")
    /\ fired' = <<>>
    /\ UNCHANGED <<reconciling, _onlineStatus, rendering, _viewMode, _groupBy,
                   effects, ESPHomeMainView_showDiscoveredDevices, building>>

\* private _setGroupBy(groupBy), from the "Group by" <select> of part_000
_setGroupBy(groupBy) ==
    /\ ToolbarShown
    /\ variant = "part_000:65"
    /\ _groupBy' = groupBy
    /\ localStorage' = [localStorage EXCEPT !["esphome.devices.groupBy"] = <<groupBy>>]
    /\ handled' = DOMEvent("change", <<>>, "")
    /\ fired' = <<>>
    /\ UNCHANGED <<reconciling, _onlineStatus, rendering, _viewMode, _sortBy, _sortDirection,
                   effects, ESPHomeMainView_showDiscoveredDevices, building>>

\* The page is loaded again: a new <esphome-devices-list> takes the place of
\* the one that was removed, its fields as the class initialisers leave
\* them; localStorage outlives the page.
ESPHomeDevicesList ==
    /\ ~_devicesUnsub
    /\ _devices' = Undefined
    /\ _new' = {}
    /\ _onlineStatus' = NoStatus
    /\ _devicesUnsub' = FALSE
    /\ _onlineStatusUnsub' = FALSE
    /\ devices' = NoSnapshot
    /\ delivered' = 0
    /\ again' = FALSE
    /\ res' = NoStatus
    /\ wasNew' = {}
    /\ pending' = <<>>
    /\ scrolled' = <<>>
    /\ thrown' = FALSE
    /\ refreshed' = {}
    /\ _viewMode' = ViewModes(variant)[1]
    /\ _sortBy' = "name"
    /\ _sortDirection' = "asc"
    /\ _groupBy' = ""
    /\ effects' = <<>>
    /\ handled' = NoEvent
    /\ fired' = <<>>
    /\ ESPHomeMainView_showDiscoveredDevices' = FALSE
    /\ UNCHANGED <<rendering, localStorage, building>>

\* what localStorage may hold when the page is first loaded: nothing, or a
\* view mode that one of the copies of the class wrote
StoredBefore ==
    { [NoPreferences EXCEPT !["esphome.devices.viewMode"] = v] :
        v \in {<<>>, <<"cards">>, <<"table">>, <<"list">>, <<"grid">>} }

\* a snapshot of the one configured device "B"
OneConfigured ==
    [fields |-> {"configured", "importable"},
     configured |-> <<ConfiguredDevice(<<66>>, <<>>, <<>>, "B.yaml")>>,
     importable |-> <<>>]

InitPreferences ==
    /\ InitReconciling
    /\ _onlineStatus = NoStatus
    /\ showDiscoveredDevices = FALSE
    /\ _searchValue = <<>>
    /\ variant \in Variants
    /\ row = NoItem
    /\ kept = "none"
    /\ status = "none"
    /\ InitFields(variant)
    /\ localStorage \in StoredBefore
    /\ InitInteracting
    /\ Built

NextPreferences ==
    \/ ESPHomeDevicesList
    \/ connectedCallback
    \/ disconnectedCallback
    \/ DevicesCallback(OneConfigured)
    \/ _setViewMode(ViewModes(variant)[1])
    \/ _setViewMode(ViewModes(variant)[2])
    \/ \E column \in SortableColumns(variant), direction \in {"asc", "desc"} :
          _handleTableSort(column, direction)
    \/ \E groupBy \in GroupColumns : _setGroupBy(groupBy)

\* The preferences: page loads, mounts, and the user's changes of view mode,
\* sorting and grouping, in each copy of the class
SpecPreferences == InitPreferences /\ [][NextPreferences]_vars

\* fireEvent(this, type, detail): the event, with detail.action and
\* detail.device where the type has them
Event(type, action, device) == [type |-> type, action |-> action, device |-> device]

\* render(): the "show-discovered-bar" with its "Show" button is in the
\* document.  The render of part_000 has no such bar (discoveredCount is
\* computed and not used, nothing calls _handleShowDiscovered).
ShowDiscoveredOffered ==
    /\ variant # "part_000:65"
    /\ _devices.defined
    /\ _devices.list # <<>>
    /\ ~showDiscoveredDevices
    /\ Len(SelectSeq(_devices.list, LAMBDA d : _isImportable(d) /\ ~d.ignored)) > 0

\* ESPHomeMainView: private _toggleDiscoveredDevices(), the listener of
\* toggle-discovered-devices, and the render that follows it:
\* <esphome-devices-list .showDiscoveredDevices=${this.showDiscoveredDevices}>
_toggleDiscoveredDevices ==
    /\ ESPHomeMainView_showDiscoveredDevices' = ~ESPHomeMainView_showDiscoveredDevices
    /\ showDiscoveredDevices' = ~ESPHomeMainView_showDiscoveredDevices

\* private _handleShowDiscovered(), from a click on "Show"
_handleShowDiscovered ==
    /\ _devicesUnsub
    /\ ShowDiscoveredOffered
    /\ handled' = DOMEvent("click", <<>>, "")
    /\ fired' = <<Event("toggle-discovered-devices", "", NoItem)>>
    /\ _toggleDiscoveredDevices
    /\ UNCHANGED <<reconciling, _onlineStatus, _searchValue, variant, row, kept, status,
                   preferences, effects, building>>

\* A toggle-discovered-devices event that other code of the page dispatched
\* on the list reaches the listener of the main view
toggleDiscoveredDevices ==
    /\ _devicesUnsub
    /\ handled' = DOMEvent("toggle-discovered-devices", <<>>, "")
    /\ fired' = <<>>
    /\ _toggleDiscoveredDevices
    /\ UNCHANGED <<reconciling, _onlineStatus, _searchValue, variant, row, kept, status,
                   preferences, effects, building>>

\* private _handleTableRowClick(e), e.detail = { id, row }: the copies in
\* devices-list.ts take e.detail.row; part_000 takes, when e.detail.id is
\* set, the first device of the view list whose name it is
_handleTableRowClick(id, clicked) ==
    /\ TableShown
    /\ handled' = DOMEvent("row-click", id, "")
    /\ row' = clicked
    /\ LET found == SelectSeq(_devices.list, LAMBDA d : d.name = id)
           device == IF variant = "part_000:65" /\ id # <<>>
                     THEN IF found # <<>> THEN found[1] ELSE NoItem
                     ELSE clicked
       IN  fired' = IF device # NoItem /\ ~_isImportable(device)
                    THEN <<Event("edit-device", "", device)>>
                    ELSE <<>>
    /\ UNCHANGED <<reconciling, _onlineStatus, showDiscoveredDevices, _searchValue, variant,
                   kept, status, preferences, effects,
                   ESPHomeMainView_showDiscoveredDevices, building>>

\* the actions of the menus of a configured device, and "visit"
MenuActions == {"edit", "logs", "visit", "validate", "delete"}

\* Variant: "delete" is not a case of its own and falls to the default
_handleMenuActionNoDelete(action, device) ==
    /\ TableShown
    /\ handled' = DOMEvent("action", <<>>, action)
    /\ row' = device
    /\ fired' = CASE action = "edit" -> <<Event("edit-device", "", device)>>
                  [] action = "logs" -> <<Event("show-logs", "", device)>>
                  [] action = "visit" /\ variant # "part_000:65" -> <<>>
                  [] OTHER -> <<Event("device-action", action, device)>>
    /\ UNCHANGED <<reconciling, _onlineStatus, showDiscoveredDevices, _searchValue, variant,
                   kept, status, preferences, effects,
                   ESPHomeMainView_showDiscoveredDevices, building>>

\* private _handleMenuAction(e, device), e.detail = { action }.  The copies
\* in devices-list.ts have the case "visit", which opens the page of a
\* device that has an ip (the devices here have none) and fires nothing.
_handleMenuAction(action, device) ==
    /\ TableShown
    /\ handled' = DOMEvent("action", <<>>, action)
    /\ row' = device
    /\ fired' = CASE action = "edit" -> <<Event("edit-device", "", device)>>
                  [] action = "logs" -> <<Event("show-logs", "", device)>>
                  [] action = "visit" /\ variant # "part_000:65" -> <<>>
                  [] action = "delete" -> <<Event("delete-device", "", device)>>
                  [] OTHER -> <<Event("device-action", action, device)>>
    /\ UNCHANGED <<reconciling, _onlineStatus, showDiscoveredDevices, _searchValue, variant,
                   kept, status, preferences, effects,
                   ESPHomeMainView_showDiscoveredDevices, building>>

\* The snapshots delivered while the user works: the configured "B"; "B" and
\* "Z" with an importable device also named "Z"; an object with neither field
UserSnapshots ==
    { OneConfigured,
      [fields |-> {"configured", "importable"},
       configured |-> <<ConfiguredDevice(<<66>>, <<>>, <<>>, "B.yaml"),
                        ConfiguredDevice(<<90>>, <<65, 98>>, <<"api">>, "Z.yaml")>>,
       importable |-> <<ImportableDevice(<<90>>, FALSE)>>],
      NoSnapshot }

InitUser ==
    /\ InitReconciling
    /\ _onlineStatus = NoStatus
    /\ showDiscoveredDevices = FALSE
    /\ _searchValue = <<>>
    /\ variant \in Variants
    /\ row = NoItem
    /\ kept = "none"
    /\ status = "none"
    /\ InitFields(variant)
    /\ localStorage = NoPreferences
    /\ InitInteracting
    /\ Built

NextUser ==
    \/ connectedCallback
    \/ disconnectedCallback
    \/ DevicesCallbackNull
    \/ \E s \in UserSnapshots : DevicesCallback(s)
    \/ Resume
    \/ OnlineStatusCallback(OnlineStatusMap("true", "undefined"))
    \/ \E value \in {<<>>, <<122>>} : valueChanged(value)
    \/ _setViewMode(ViewModes(variant)[1])
    \/ _setViewMode(ViewModes(variant)[2])
    \/ _handleTableSort("name", "desc")
    \/ _setGroupBy("status")

\* One element from its construction on: the deliveries of both
\* subscriptions and the user's searches and changes of view mode, sorting
\* and grouping, in any order
SpecUser == InitUser /\ [][NextUser]_vars

\* the devices of the rows of the table: those that pass the filter
Rows == { _devices.list[i] : i \in { j \in DOMAIN _devices.list : _filter(_devices.list[j]) } }

NextEvents ==
    \/ connectedCallback
    \/ \E s \in UserSnapshots : DevicesCallback(s)
    \/ Resume
    \/ _setViewMode(ViewModes(variant)[1])
    \/ _setViewMode(ViewModes(variant)[2])
    \/ _handleShowDiscovered
    \/ toggleDiscoveredDevices
    \/ \E clicked \in Rows : \E id \in {<<>>, clicked.name} :
          _handleTableRowClick(id, clicked)
    \/ \E device \in { d \in Rows : ~_isImportable(d) } : \E action \in MenuActions :
          _handleMenuAction(action, device)

\* One mounted element: snapshots, and the user's clicks on rows, menus,
\* view buttons and the "Show" button, in each copy of the class
SpecEvents == InitUser /\ [][NextEvents]_vars

----------------------------------------------------------------------------
(* script/build *)

\* the fields of the component and of the main view, which the build leaves alone
running == <<reconciling, _onlineStatus, rendering, preferences, effects, interacting>>

\* the imports "../../esphome-webui-components/src/*.js" of the device list
\* resolve: the sources of the submodule are in the working tree
ImportsResolve == "esphome-webui-components/src" \in files

\* set -e: a command that fails ends the script with a status other than 0
Fail ==
    /\ pc' = "exit"
    /\ exitStatus' = "1"

\* if [ -d "esphome-webui-components" ] && [ -f "esphome-webui-components/package.json" ]
IfSubmodule ==
    /\ pc = "if submodule"
    /\ pc' = IF /\ "esphome-webui-components" \in files
                /\ "esphome-webui-components/package.json" \in files
             THEN "if node_modules"
             ELSE "rm"
    /\ UNCHANGED <<files, exitStatus, bundle, running>>

\* cd esphome-webui-components; if [ ! -d "node_modules" ]
IfNodeModules ==
    /\ pc = "if node_modules"
    /\ pc' = IF "esphome-webui-components/node_modules" \notin files
             THEN "npm install"
             ELSE "npm run build"
    /\ UNCHANGED <<files, exitStatus, bundle, running>>

\* npm install, which may fail
NpmInstall ==
    /\ pc = "npm install"
    /\ \/ /\ pc' = "npm run build"
          /\ files' = files \cup {"esphome-webui-components/node_modules"}
          /\ UNCHANGED exitStatus
       \/ /\ Fail
          /\ UNCHANGED files
    /\ UNCHANGED <<bundle, running>>

\* npm run build, which may fail; cd ..
NpmRunBuild ==
    /\ pc = "npm run build"
    /\ \/ /\ pc' = "rm"
          /\ files' = files \cup {"esphome-webui-components/dist"}
          /\ UNCHANGED exitStatus
       \/ /\ Fail
          /\ UNCHANGED files
    /\ UNCHANGED <<bundle, running>>

\* rm -rf esphome_dashboard
Rm ==
    /\ pc = "rm"
    /\ pc' = "cp"
    /\ files' = files \ {"esphome_dashboard"}
    /\ bundle' = "none"
    /\ UNCHANGED <<exitStatus, running>>

\* cp -r raw_package esphome_dashboard
Cp ==
    /\ pc = "cp"
    /\ pc' = "rollup"
    /\ files' = files \cup {"esphome_dashboard"}
    /\ UNCHANGED <<exitStatus, bundle, running>>

\* NODE_ENV=production npm exec -- rollup -c, the last command of the script;
\* rollup is run from the dashboard's own node_modules.  An import that
\* names a file which does not exist either stops rollup ("Could not
\* resolve") or is left in the bundle as it is, by what the configuration
\* makes of it.
Rollup ==
    /\ pc = "rollup"
    /\ \/ /\ "node_modules" \in files
          /\ ImportsResolve
          /\ pc' = "exit"
          /\ exitStatus' = "0"
          /\ bundle' = "complete"
       \/ /\ "node_modules" \notin files \/ ~ImportsResolve
          /\ Fail
          /\ UNCHANGED bundle
       \/ /\ "node_modules" \in files
          /\ ~ImportsResolve
          /\ pc' = "exit"
          /\ exitStatus' = "0"
          /\ bundle' = "unresolved imports"
    /\ UNCHANGED <<files, running>>

\* The working trees the script is started in: the submodule missing, its
\* directory empty (not initialised) or checked out, with or without its
\* node_modules and dist; the dashboard's own dependencies installed or not;
\* esphome_dashboard left by an earlier build or not
WorkingTrees ==
    { {"raw_package"} \cup s \cup d :
        s \in { {}, {"esphome-webui-components"} } \cup
              { {"esphome-webui-components", "esphome-webui-components/package.json",
                 "esphome-webui-components/src"} \cup m :
                  m \in SUBSET {"esphome-webui-components/node_modules",
                                "esphome-webui-components/dist"} },
        d \in SUBSET {"node_modules", "esphome_dashboard"} }

InitBuild ==
    /\ InitReconciling
    /\ _onlineStatus = NoStatus
    /\ InitRendering
    /\ InitFields("devices-list.ts:49")
    /\ localStorage = NoPreferences
    /\ InitInteracting
    /\ pc = "if submodule"
    /\ files \in WorkingTrees
    /\ exitStatus = "running"
    /\ bundle \in IF "esphome_dashboard" \in files
                  THEN {"complete", "unresolved imports"}
                  ELSE {"none"}

NextBuild ==
    \/ IfSubmodule
    \/ IfNodeModules
    \/ NpmInstall
    \/ NpmRunBuild
    \/ Rm
    \/ Cp
    \/ Rollup

\* One run of script/build
SpecBuild == InitBuild /\ [][NextBuild]_vars

----------------------------------------------------------------------------
(* Vocabulary of the properties *)

NamesOf(list) == { list[i].name : i \in DOMAIN list }

ConfiguredOf(list) == SelectSeq(list, LAMBDA d : ~_isImportable(d))
ImportableOf(list) == SelectSeq(list, LAMBDA d : _isImportable(d))

\* the step is a run of the callback on a non-null snapshot, which devices'
\* then holds
Processed == delivered' # delivered

\* the step is a delivery to the online-status callback that changed what it
\* was last handed, which res' then holds
StatusDelivered == res' # res

\* the step is a delivery of a null payload to the device callback: it is
\* none of connect, teardown, a processed snapshot, a resumed callback or an
\* online-status delivery
NullDelivered ==
    /\ ~Processed
    /\ ~StatusDelivered
    /\ _devicesUnsub' = _devicesUnsub
    /\ Len(pending') = Len(pending)

\* the step resumes the callback suspended longest
Resumed == Len(pending') < Len(pending)

\* the configurations of the devices of list whose loaded_integrations is empty
NoIntegrations(list) ==
    { list[i].configuration : i \in { j \in DOMAIN list : list[j].loaded_integrations = <<>> } }

\* the scroll target of that run: the name the suspended callback will hand
\* to _scrollToDevice, <<>> when the run did not suspend
ScrollTarget ==
    IF Len(pending') > Len(pending) THEN pending'[Len(pending')].newName ELSE <<>>

\* the position in list of the first device whose name is not in names, 0 if none
FirstAbsent(list, names) ==
    IF \E i \in DOMAIN list : list[i].name \notin names
    THEN CHOOSE i \in DOMAIN list :
           /\ list[i].name \notin names
           /\ \A j \in 1..(i - 1) : list[j].name \in names
    ELSE 0

\* the position in list of the last device whose name is not in names, 0 if none
LastAbsent(list, names) ==
    IF \E i \in DOMAIN list : list[i].name \notin names
    THEN CHOOSE i \in DOMAIN list :
           /\ list[i].name \notin names
           /\ \A j \in (i + 1)..Len(list) : list[j].name \in names
    ELSE 0

\* case-insensitive ascending order of two strings
AscendingNoCase(a, b) == localeCompare(toLocaleLowerCase(a), toLocaleLowerCase(b)) <= 0

\* the sort key of a configured device: friendly_name when it has one, else name
SortKey(d) == IF Len(d.friendly_name) > 0 THEN d.friendly_name ELSE d.name

\* how many entries of list are the device d
Count(list, d) == Cardinality({ i \in DOMAIN list : list[i] = d })

----------------------------------------------------------------------------
(* C1 *)

\* C1, as stated: after a snapshot with `configured` is processed, _new is
\* exactly the set of names of the snapshot's configured devices that are
\* absent from the CONFIGURED entries of the previous view list (taken where
\* that view list was itself built from a snapshot with `configured`).
C1_NewIsAbsentFromPreviousConfigured ==
    [][(Processed /\ "configured" \in devices'.fields
                  /\ _devices.defined /\ "configured" \in devices.fields)
        => _new' = NamesOf(devices'.configured) \ NamesOf(ConfiguredOf(_devices.list))]_vars

\* C1, amended: after a snapshot with `configured` is processed, _new is
\* exactly the set of names of the snapshot's configured devices that are
\* absent from the whole previous view list, importable entries included; it
\* is empty when there was no previous view list.  A non-empty _new comes with
\* a scroll target.
C1_NewIsAbsentFromPreviousView ==
    [][(Processed /\ "configured" \in devices'.fields)
        => /\ _new' = IF _devices.defined
                      THEN NamesOf(devices'.configured) \ NamesOf(_devices.list)
                      ELSE {}
           /\ _new' # {} => ScrollTarget \in _new']_vars

\* C1 witness: the view list held the configured "B", the snapshot's configured
\* devices are "B" and "Z", and the new set is {"Z"} with scroll target "Z".
C1_Witness ==
    /\ devices.configured # <<>>
    /\ NamesOf(devices.configured) = {<<66>>, <<90>>}
    /\ _new = {<<90>>}
    /\ pending # <<>>
    /\ pending[Len(pending)].newName = <<90>>

----------------------------------------------------------------------------
(* C2 *)

\* C2: when the processed snapshot has no `configured` field, the view list
\* and the new set are what they were before the delivery.
C2_AbsentConfiguredChangesNothing ==
    [][(Processed /\ "configured" \notin devices'.fields)
        => (_devices' = _devices /\ _new' = _new)]_vars

----------------------------------------------------------------------------
(* C3 *)

\* C3: processing a snapshot whose `configured` and/or `importable` field is
\* absent never ends in an exception.
C3_AbsentFieldsNeverThrow ==
    [][(Processed /\ devices'.fields # {"configured", "importable"}) => ~thrown']_vars

----------------------------------------------------------------------------
(* C4 *)

\* C4, as stated: the scroll target is the FIRST configured device of the
\* snapshot, in iteration order, whose name is absent from the previous view
\* list (taken where that view list was built from a snapshot with `configured`).
C4_ScrollTargetIsFirstNew ==
    [][(Processed /\ _new' # {} /\ "configured" \in devices.fields)
        => ScrollTarget =
             devices'.configured[FirstAbsent(devices'.configured, NamesOf(_devices.list))].name]_vars

\* C4, amended: the scroll target is the LAST configured device of the
\* snapshot, in iteration order, whose name is absent from the previous view
\* list, and that name is the one handed to _scrollToDevice when the callback
\* resumes.
C4_ScrollTargetIsLastNew ==
    [][/\ (Processed /\ _new' # {})
          => ScrollTarget =
               devices'.configured[LastAbsent(devices'.configured, NamesOf(_devices.list))].name
       /\ Len(pending') < Len(pending) => scrolled' = Head(pending).newName]_vars

\* C4 witness: a snapshot brought two new configured devices and the callback
\* is suspended with the second of them as scroll target.
C4_Witness ==
    /\ Cardinality(_new) = 2
    /\ Len(devices.configured) = 2
    /\ pending # <<>>
    /\ pending[Len(pending)].newName = devices.configured[2].name
    /\ pending[Len(pending)].newName # devices.configured[1].name

----------------------------------------------------------------------------
(* C5 *)

\* C5: for every processed snapshot the scroll target is absent exactly when
\* the new set is empty, a scroll target that is present is a member of the
\* new set of the same snapshot, and with an empty new set the run neither
\* suspends nor hands a name to _scrollToDevice.
C5_ScrollTargetIffNew ==
    [][Processed
        => /\ (ScrollTarget = <<>>) <=> (_new' = {})
           /\ ScrollTarget # <<>> => ScrollTarget \in _new'
           /\ _new' = {} => (pending' = pending /\ scrolled' = <<>>)]_vars

\* C5 witness: a callback with a non-empty new set has resumed and handed a
\* member of that set to _scrollToDevice.
C5_Witness ==
    /\ scrolled # <<>>
    /\ scrolled \in _new
    /\ pending = <<>>

----------------------------------------------------------------------------
(* C6 *)

\* C6: in the view list every importable device precedes every configured device.
C6_ImportableBeforeConfigured ==
    \A i, j \in DOMAIN _devices.list :
        (_isImportable(_devices.list[j]) /\ ~_isImportable(_devices.list[i])) => j < i

\* C6 witness: a view list with two importable and two configured devices.
C6_Witness ==
    /\ Len(ImportableOf(_devices.list)) = 2
    /\ Len(ConfiguredOf(_devices.list)) = 2

----------------------------------------------------------------------------
(* C7 *)

\* C7: the configured entries of the view list are in ascending
\* case-insensitive order of their sort key, friendly_name when the device
\* has one and name otherwise.
C7_ConfiguredSortedByKey ==
    LET c == ConfiguredOf(_devices.list)
    IN  \A i, j \in DOMAIN c : i < j => AscendingNoCase(SortKey(c[i]), SortKey(c[j]))

\* C7 witness: the snapshot listed "B" before "Z"; the view list has "Z",
\* whose friendly name is "Ab", before "B".
C7_Witness ==
    /\ Len(devices.configured) = 2
    /\ devices.configured[1].name = <<66>>
    /\ Len(ConfiguredOf(_devices.list)) = 2
    /\ ConfiguredOf(_devices.list)[1].name = <<90>>

----------------------------------------------------------------------------
(* C8 *)

\* C8: among the importable entries of the view list every ignored one comes
\* after every one that is not ignored, and entries with the same `ignored`
\* are in ascending case-insensitive order of name.
C8_ImportableSortedByIgnoredThenName ==
    LET m == ImportableOf(_devices.list)
    IN  \A i, j \in DOMAIN m :
          i < j => /\ ~(m[i].ignored /\ ~m[j].ignored)
                   /\ m[i].ignored = m[j].ignored => AscendingNoCase(m[i].name, m[j].name)

\* C8 witness: importable "Z" not ignored and "A" ignored, no configured
\* device: the view list is "Z", "A".
C8_Witness ==
    /\ "configured" \in devices.fields
    /\ devices.configured = <<>>
    /\ Len(_devices.list) = 2
    /\ _devices.list[1].name = <<90>> /\ ~_devices.list[1].ignored
    /\ _devices.list[2].name = <<65>> /\ _devices.list[2].ignored

----------------------------------------------------------------------------
(* C9 *)

\* C9: after a snapshot is processed the view list holds exactly the devices
\* of that snapshot, each configured and each importable entry once and
\* nothing else, only the configured ones when `importable` is absent; and the
\* new set holds no name of the new set of the cycle before.
C9_ViewRebuiltFromSnapshot ==
    [][Processed
        => LET from == (IF "configured" \in devices'.fields
                        THEN devices'.configured ELSE <<>>)
                       \o (IF "importable" \in devices'.fields
                           THEN devices'.importable ELSE <<>>)
           IN  /\ _devices'.defined
               /\ Len(_devices'.list) = Len(from)
               /\ \A i \in DOMAIN from :
                    Count(_devices'.list, from[i]) = Count(from, from[i])
               /\ _new' \cap _new = {}]_vars

\* C9 witness: a snapshot without `importable` was processed after the view
\* list held importable devices; the view list holds its configured devices only.
C9_Witness ==
    /\ "importable" \notin devices.fields
    /\ _devices.defined
    /\ Len(_devices.list) = 2
    /\ _new # {}

----------------------------------------------------------------------------
(* C10 *)

\* C10: when the snapshot processed is the one processed just before it, the
\* new set is empty, the run has no scroll target and the view list is the
\* one the first processing left.
C10_SameSnapshotTwice ==
    [][(Processed /\ _devices.defined /\ devices' = devices)
        => /\ _new' = {}
           /\ ScrollTarget = <<>>
           /\ scrolled' = <<>>
           /\ _devices' = _devices]_vars

\* C10 witness: a snapshot with configured and importable devices has been
\* processed twice in a row.
C10_Witness ==
    /\ again
    /\ devices.configured # <<>>
    /\ devices.importable # <<>>
    /\ _new = {}

----------------------------------------------------------------------------
(* C11 *)

\* C11: a name that the last processed snapshot with `configured` put in the
\* new set is not in the new set after the next processed snapshot with
\* `configured`, whatever was delivered in between.
C11_NewForOneCycle ==
    [][(Processed /\ "configured" \in devices'.fields) => _new' \cap wasNew = {}]_vars

----------------------------------------------------------------------------
(* C12 *)

\* C12: a delivery of a null payload leaves the view list, the new set and the
\* online-status map as they were, hands no name to _scrollToDevice, hands no
\* configuration to _metadataRefresher.add and raises no exception.
C12_NullPayloadIsNoOp ==
    [][NullDelivered
        => /\ _devices' = _devices
           /\ _new' = _new
           /\ _onlineStatus' = _onlineStatus
           /\ scrolled' = <<>>
           /\ refreshed' = {}
           /\ ~thrown']_vars

\* C12 witness: after a snapshot was processed, a status map delivered and a
\* scroll made, a null payload has been delivered: the state is kept and the
\* run left no scroll, no report and no exception.
C12_Witness ==
    /\ _devicesUnsub
    /\ _devices.defined /\ _devices.list # <<>>
    /\ _new # {}
    /\ _onlineStatus # NoStatus
    /\ pending = <<>>
    /\ scrolled = <<>> /\ refreshed = {} /\ ~thrown

----------------------------------------------------------------------------
(* C13 *)

\* sub occurs in s, letter case apart
ContainsNoCase(s, sub) ==
    LET lower(c) == IF c \in 65..90 THEN c + 32 ELSE c
    IN  \E i \in 0..(Len(s) - Len(sub)) :
            \A j \in 1..Len(sub) : lower(s[i + j]) = lower(sub[j])

\* C13: _filter keeps a device exactly when (it is configured or
\* showDiscoveredDevices is set) and (the search string is empty or occurs,
\* letter case apart, in one of name, friendly_name, comment, project_name
\* that the device has); with the flag off an importable device is never
\* kept, whatever the search string.
C13_FilterKeeps ==
    kept # "none"
    => /\ (kept = "true")
            <=> /\ ~_isImportable(row) \/ showDiscoveredDevices
                /\ \/ _searchValue = <<>>
                   \/ \E k \in {"name", "friendly_name", "comment", "project_name"} :
                         k \in DOMAIN row /\ ContainsNoCase(row[k], _searchValue)
       /\ (~showDiscoveredDevices /\ _isImportable(row)) => kept = "false"

\* C13 witness: with the flag set, an importable device named "A" without
\* friendly name is kept for the search "ab", which only its project name
\* "Ab" contains.
C13_Witness ==
    /\ kept = "true"
    /\ showDiscoveredDevices
    /\ _isImportable(row)
    /\ _searchValue = <<97, 98>>
    /\ row.name = <<65>>
    /\ "friendly_name" \notin DOMAIN row
    /\ "project_name" \in DOMAIN row

----------------------------------------------------------------------------
(* C14 *)

\* C14, as stated: in every copy of the class the status of an importable
\* device is "discovered", and that of a configured device is
\* "update-available" when update_available is true, else "online" when the
\* map has true for its configuration, else "offline".
C14_StatusInEveryVariant ==
    status # "none"
    => status = IF _isImportable(row) THEN "discovered"
                ELSE IF row.update_available = "true" THEN "update-available"
                ELSE IF _onlineStatus[row.configuration] = "true" THEN "online"
                ELSE "offline"

\* C14, amended: the status of an importable device is "discovered"; that of
\* a configured device is, in the copy of part_000, "update-available" when
\* update_available is true, else "online" when the map has true for its
\* configuration, else "offline"; in the two copies of devices-list.ts it is
\* "online" or "offline" by the map alone, update_available not being read.
C14_StatusByVariant ==
    status # "none"
    => status = IF _isImportable(row) THEN "discovered"
                ELSE IF variant = "part_000:65" /\ row.update_available = "true"
                     THEN "update-available"
                ELSE IF _onlineStatus[row.configuration] = "true" THEN "online"
                ELSE "offline"

\* C14 witness: in the copy of part_000 a configured device that is online
\* and has an update available is given "update-available".
C14_Witness ==
    /\ variant = "part_000:65"
    /\ ~_isImportable(row)
    /\ row.update_available = "true"
    /\ _onlineStatus[row.configuration] = "true"
    /\ status = "update-available"

----------------------------------------------------------------------------
(* C15 *)

\* C15: the run of the callback on a snapshot hands to _metadataRefresher.add
\* the configuration of exactly those configured devices of that snapshot
\* whose loaded_integrations is empty: in the same step when the snapshot
\* brought no new device, and when the run resumes, for the configured
\* devices of its own snapshot, when it brought one.
C15_EmptyIntegrationsReported ==
    [][/\ (Processed /\ "configured" \in devices'.fields /\ _new' = {})
          => (refreshed' = NoIntegrations(devices'.configured) /\ ~thrown')
       /\ (Processed /\ _new' # {})
          => pending'[Len(pending')].configured = devices'.configured
       /\ Resumed
          => (refreshed' = NoIntegrations(Head(pending).configured) /\ ~thrown')]_vars

\* C15 witness: a snapshot with the new devices "B" (loaded_integrations
\* empty) and "Z" (not empty) was processed and its run has resumed: B.yaml,
\* and only it, was handed to _metadataRefresher.add.
C15_Witness ==
    /\ Len(devices.configured) = 2
    /\ Cardinality(_new) = 2
    /\ pending = <<>>
    /\ scrolled # <<>>
    /\ refreshed = {"B.yaml"}

----------------------------------------------------------------------------
(* C16 *)

\* C16, as stated: from the moment a snapshot's view list is installed until
\* its scroll request and metadata reports are made, nothing else is
\* processed: while a run of the callback is suspended the only step is its
\* resumption.
C16_RunsToCompletion ==
    [][pending # <<>> => Resumed]_vars

\* C16, amended: a run installs the view list and the new set in one step.
\* With an empty new set it ends in that step, nothing left suspended.  With
\* a new device it suspends with no scroll and no report made, keeping the
\* scroll target and the configured devices of its own snapshot; when it
\* resumes, whatever was processed in between, it scrolls to that target and
\* reports from those devices, the view list and the new set left as they are.
C16_CompletesUnlessNewDevice ==
    [][/\ Processed => _devices'.defined
       /\ (Processed /\ _new' = {}) => pending' = pending
       /\ (Processed /\ _new' # {})
          => /\ pending' = Append(pending, [newName |-> ScrollTarget,
                                            configured |-> devices'.configured])
             /\ scrolled' = <<>>
             /\ refreshed' = {}
       /\ Resumed
          => /\ scrolled' = Head(pending).newName
             /\ refreshed' = NoIntegrations(Head(pending).configured)
             /\ _devices' = _devices
             /\ _new' = _new]_vars

\* C16 witness: while a run is suspended, an online-status map has been
\* delivered, another snapshot has been processed and the component has been
\* torn down.
C16_Witness ==
    /\ pending # <<>>
    /\ "configured" \in devices.fields
    /\ Head(pending).configured # devices.configured
    /\ _new = {}
    /\ _onlineStatus # NoStatus
    /\ ~_devicesUnsub

----------------------------------------------------------------------------
(* C17 *)

\* C17: while the subscriptions are released the view list and the new set do
\* not change and no run of the callback resumes to call _scrollToDevice and
\* _metadataRefresher.add.
C17_NoEffectAfterTeardown ==
    [][~_devicesUnsub => (~Resumed /\ _devices' = _devices /\ _new' = _new)]_vars

----------------------------------------------------------------------------
(* C18 *)

\* C18: connect and teardown alternating, each connect finds no subscription
\* active and makes the device and the online-status subscription active; each
\* teardown finds both active and releases both; neither is released or made
\* active by any other step.
C18_SubscribedAndReleasedOnce ==
    [][/\ (~_devicesUnsub /\ _devicesUnsub') => (~_onlineStatusUnsub /\ _onlineStatusUnsub')
       /\ (_devicesUnsub /\ ~_devicesUnsub') => (_onlineStatusUnsub /\ ~_onlineStatusUnsub')
       /\ (_onlineStatusUnsub' # _onlineStatusUnsub) => (_devicesUnsub' # _devicesUnsub)]_vars

\* C18 witness: the component received a snapshot and was torn down: no
\* subscription is active.
C18_Witness ==
    /\ _devices.defined
    /\ _devices.list # <<>>
    /\ ~_devicesUnsub
    /\ ~_onlineStatusUnsub

----------------------------------------------------------------------------
(* C19 *)

\* C19: an online-status delivery makes the online-status map the delivered
\* map, nothing of the map held before kept, and leaves the view list and
\* the new set as they were; the processing of a snapshot, and the
\* resumption of its run, leave the online-status map as it was.
C19_EachDeliveryReplacesItsOwn ==
    [][/\ StatusDelivered
          => (_onlineStatus' = res' /\ _devices' = _devices /\ _new' = _new)
       /\ (Processed \/ Resumed) => _onlineStatus' = _onlineStatus]_vars

\* C19 witness: with a view list and a new set in place and a run suspended,
\* the map { "Z.yaml": false } was delivered: the map has no entry for B.yaml.
C19_Witness ==
    /\ _devices.defined
    /\ _new # {}
    /\ pending # <<>>
    /\ res = OnlineStatusMap("undefined", "false")
    /\ _onlineStatus["B.yaml"] = "undefined"
    /\ _onlineStatus["Z.yaml"] = "false"

----------------------------------------------------------------------------
(* C20 *)

\* no two entries of list are the same variant with the same name
NoTwoSame(list) ==
    \A i, j \in DOMAIN list :
        (_isImportable(list[i]) = _isImportable(list[j]) /\ list[i].name = list[j].name)
            => i = j

\* C20, as stated: whatever snapshot was given, no two entries of the view
\* list are the same variant with the same name.
C20_NoTwoSameEntries ==
    NoTwoSame(_devices.list)

\* C20, amended: the view list has one entry for each entry of the snapshot,
\* none dropped; it has no two entries of the same variant and name when
\* neither collection of the snapshot names a device twice.
C20_NoTwoSameFromUniqueNames ==
    [][Processed
        => /\ Len(_devices'.list) = Len(devices'.configured) + Len(devices'.importable)
           /\ (UniqueNames(devices'.configured) /\ UniqueNames(devices'.importable))
                 => NoTwoSame(_devices'.list)]_vars

\* C20 witness: from a snapshot whose collections each name "Z" once, the
\* view list has the importable "Z" and the configured "Z", two entries of
\* one name that are not the same device.
C20_Witness ==
    /\ UniqueNames(devices.configured) /\ UniqueNames(devices.importable)
    /\ Len(_devices.list) = 2
    /\ NoTwoSame(_devices.list)
    /\ _isImportable(_devices.list[1])
    /\ ~_isImportable(_devices.list[2])
    /\ _devices.list[2].name = _devices.list[1].name

----------------------------------------------------------------------------
(* C21 *)

\* the field a preference is loaded into
Field(k) ==
    CASE k = "esphome.devices.viewMode" -> _viewMode
      [] k = "esphome.devices.sortBy" -> _sortBy
      [] k = "esphome.devices.sortDirection" -> _sortDirection
      [] OTHER -> _groupBy

\* the step is a mount
Mounted == ~_devicesUnsub /\ _devicesUnsub'

\* C21: the preferences round-trip.  While the component is mounted a field
\* changes only together with the write of its new value under its key,
\* localStorage is written by nothing else, and a mount leaves in each field
\* the value stored under its key (the value last chosen), the field as it
\* was when nothing is stored; outside a mount no field takes a stored value.
C21_PreferencesRoundTrip ==
    [][\A k \in Keys :
         /\ (_devicesUnsub /\ Field(k)' # Field(k)) => localStorage'[k] = <<Field(k)'>>
         /\ localStorage'[k] # localStorage[k] =>
              _devicesUnsub /\ localStorage'[k] = <<Field(k)'>>
         /\ Mounted =>
              Field(k)' = IF localStorage[k] = <<>> THEN Field(k) ELSE localStorage[k][1]
      ]_vars

\* C21 witness: in part_000 a new element, no snapshot delivered to it yet,
\* was mounted and holds the view mode, the sorting and the grouping the
\* user chose on the page before
C21_Witness ==
    /\ variant = "part_000:65"
    /\ _devicesUnsub
    /\ ~_devices.defined
    /\ _viewMode = "grid"
    /\ _sortBy = "status"
    /\ _sortDirection = "desc"
    /\ _groupBy = "deviceType"

----------------------------------------------------------------------------
(* C22 *)

\* C22, as stated: when the submodule esphome-webui-components is not in
\* the working tree (the dashboard's own dependencies being installed), the
\* script skips the component steps, runs rm, cp and rollup, and ends
\* normally with a dashboard that builds and runs: the exit status is 0 and
\* the bundle is complete.
C22_FallbackBuilds ==
    (/\ pc = "exit"
     /\ "node_modules" \in files
     /\ "esphome-webui-components/package.json" \notin files) =>
        /\ "esphome-webui-components/node_modules" \notin files
        /\ "esphome-webui-components/dist" \notin files
        /\ "esphome_dashboard" \in files
        /\ exitStatus = "0"
        /\ bundle = "complete"

----------------------------------------------------------------------------
(* C23 *)

\* C23: once the view list is set it is never absent again: no delivery of
\* either subscription (null payload, snapshot without fields, online
\* status), no mount or teardown and no search, view-mode, sort or group
\* change takes _devices back to undefined.
C23_ViewListStaysSet == [][_devices.defined => _devices'.defined]_vars

\* C23 witness: the view list is still set, and empty, after a snapshot
\* without fields was processed, an online status was delivered and the user
\* changed the view mode, the sorting and the grouping
C23_Witness ==
    /\ _devices.defined
    /\ _devices.list = <<>>
    /\ devices = NoSnapshot
    /\ _onlineStatus # NoStatus
    /\ _viewMode = "grid"
    /\ _sortDirection = "desc"
    /\ _groupBy = "status"
    /\ _searchValue # <<>>

----------------------------------------------------------------------------
(* C24 *)

\* C24: a snapshot processed while there is no view list yet leaves the new
\* set empty and requests no scroll, whatever it contains: the run does not
\* suspend and hands no name to _scrollToDevice.  A device is therefore in
\* the new set only after a snapshot processed on top of a view list.
C24_FirstSnapshotHasNoNew ==
    [][/\ (Processed /\ ~_devices.defined) =>
            /\ _new' = {}
            /\ ScrollTarget = <<>>
            /\ pending' = pending
            /\ scrolled' = <<>>
       /\ (_new' # {} /\ _new' # _new) => _devices.defined
      ]_vars

\* C24 witness: the first snapshot of the element brought both configured
\* devices, none is new and nothing waits to scroll
C24_Witness ==
    /\ delivered = 1
    /\ ~again
    /\ Len(ConfiguredOf(_devices.list)) = 2
    /\ _new = {}
    /\ wasNew = {}
    /\ pending = <<>>
    /\ scrolled = <<>>
    /\ effects = <<"install", "add">>

----------------------------------------------------------------------------
(* C25 *)

\* the effect is among those of the run
Did(run, effect) == \E i \in DOMAIN run : run[i] = effect

\* the effects of run are in the order of order, each at most once
InOrder(run, order) ==
    /\ \A i \in DOMAIN run : Did(order, run[i])
    /\ \A i, j \in DOMAIN run :
         i < j => \E m, n \in DOMAIN order : m < n /\ order[m] = run[i] /\ order[n] = run[j]

\* C25: the effects of one delivery come in a fixed order.  The run that
\* processes the snapshot first installs the view list and the new set; with
\* a scroll target it does nothing more until the render has completed, and
\* otherwise it reports the metadata candidates.  The resumed run starts
\* from the completed render, then scrolls, then reports.  A scroll is
\* requested only when the card of the target is rendered: the cards are
\* shown (not the table or list view), the view list holds a configured
\* device of that name, and it passes the filter; otherwise nothing is
\* scrolled and nothing is thrown.
C25_EffectsInOrder ==
    [][/\ Processed =>
            /\ effects'[1] = "install"
            /\ InOrder(effects', <<"install", "add">>)
            /\ ScrollTarget # <<>> => effects' = <<"install">>
       /\ Resumed =>
            /\ effects'[1] = "updateComplete"
            /\ InOrder(effects', <<"updateComplete", "scrollIntoView", "add">>)
            /\ Did(effects', "add") <=> refreshed' # {}
            /\ ~thrown'
            /\ Did(effects', "scrollIntoView") =>
                 /\ _viewMode # (IF variant = "part_000:65" THEN "list" ELSE "table")
                 /\ \E i \in DOMAIN _devices.list :
                      /\ ~_isImportable(_devices.list[i])
                      /\ _devices.list[i].name = scrolled'
                      /\ _filter(_devices.list[i])
       /\ (~Processed /\ ~Resumed) => ~Did(effects', "scrollIntoView") \/ effects' = effects
      ]_vars

\* C25 witness: the resumed run found the card of its target "B" filtered
\* out by the search: it scrolled nothing, threw nothing and went on to
\* report "B.yaml"
C25_Witness ==
    /\ scrolled = <<66>>
    /\ _searchValue = <<122>>
    /\ effects = <<"updateComplete", "add">>
    /\ refreshed = {"B.yaml"}
    /\ ~thrown

----------------------------------------------------------------------------
(* C26 *)

\* the step is a run of a user-interface handler on a DOM event of that type
Handled(type) ==
    /\ handled'.type = type
    /\ <<handled, row, fired, ESPHomeMainView_showDiscoveredDevices>>' #
         <<handled, row, fired, ESPHomeMainView_showDiscoveredDevices>>

\* C26, as stated: whenever showDiscoveredDevices is false and the view list
\* holds an importable device that is not ignored, the list offers the
\* "show discovered" control; each toggle-discovered-devices event, the one
\* the control fires included, flips the flag of the main view, so that two
\* of them restore it, and the list is handed the flag of the main view.
C26_ShowDiscoveredControl ==
    [][/\ (/\ _devices.defined
           /\ ~showDiscoveredDevices
           /\ \E i \in DOMAIN _devices.list :
                _isImportable(_devices.list[i]) /\ ~_devices.list[i].ignored)
          => ShowDiscoveredOffered
       /\ showDiscoveredDevices' = ESPHomeMainView_showDiscoveredDevices'
       /\ (Handled("toggle-discovered-devices")
             \/ (Handled("click") /\ fired' # <<>>)) =>
            /\ ESPHomeMainView_showDiscoveredDevices' = ~ESPHomeMainView_showDiscoveredDevices
            /\ Handled("click") =>
                 fired' = <<Event("toggle-discovered-devices", "", NoItem)>>
      ]_vars

----------------------------------------------------------------------------
(* C27 *)

\* C27, as stated: in the copy of the class that resolves the clicked row
\* from e.detail.id, a row-click on the row of a configured device fires
\* exactly one edit-device event carrying that device, and a row-click on
\* the row of an importable device fires nothing, whatever the view list
\* holds.
C27_RowClickEditsConfigured ==
    (variant = "part_000:65" /\ handled.type = "row-click") =>
        fired = IF _isImportable(row) THEN <<>> ELSE <<Event("edit-device", "", row)>>

----------------------------------------------------------------------------
(* C28 *)

\* the one event of the menu action on the device, "visit" being an action
\* like any other
OneEvent(action, device) ==
    CASE action = "edit" -> <<Event("edit-device", "", device)>>
      [] action = "logs" -> <<Event("show-logs", "", device)>>
      [] action = "delete" -> <<Event("delete-device", "", device)>>
      [] OTHER -> <<Event("device-action", action, device)>>

\* C28, as stated: _handleMenuAction dispatches exactly one event per menu
\* action: edit-device, show-logs or delete-device for "edit", "logs" and
\* "delete", device-action with the action name and the device for every
\* other name; it changes neither the view list nor the new set nor the
\* online-status map.
C28_OneEventPerAction ==
    [][Handled("action") =>
         /\ fired' = OneEvent(handled'.action, row')
         /\ UNCHANGED <<_devices, _new, _onlineStatus>>
      ]_vars

\* C28, amended: as stated, except that in the two copies of devices-list.ts
\* the action "visit" dispatches no event.
C28_OneEventUnlessVisit ==
    [][Handled("action") =>
         /\ fired' = IF handled'.action = "visit" /\ variant # "part_000:65"
                     THEN <<>>
                     ELSE OneEvent(handled'.action, row')
         /\ UNCHANGED <<_devices, _new, _onlineStatus>>
      ]_vars

\* C28 witness: "delete" on the configured "Z", a new device of the view
\* list, has fired delete-device and the device is still in the list
C28_Witness ==
    /\ handled = DOMEvent("action", <<>>, "delete")
    /\ fired = <<Event("delete-device", "", row)>>
    /\ row.name = <<90>>
    /\ row.name \in _new
    /\ \E i \in DOMAIN _devices.list : _devices.list[i] = row

----------------------------------------------------------------------------
(* C29 *)

\* C29, as stated: _viewMode is always one of the two view modes of the copy
\* of the class that runs ("cards" or "table" in devices-list.ts, "list" or
\* "grid" in part_000), after any mounts and view-mode changes and whatever
\* was stored under esphome.devices.viewMode before.
C29_ViewModeIsOneOfTwo ==
    _viewMode \in { ViewModes(variant)[1], ViewModes(variant)[2] }

----------------------------------------------------------------------------
(* C30 *)

\* C30, as stated: the callback does not modify the snapshot object it is
\* handed: after the run on the snapshot s the object still is s, its
\* configured and importable collections with the contents and in the order
\* they were delivered.
C30_SnapshotNotModified ==
    [][\A s \in Snapshots : DevicesCallback(s) => devices' = s]_vars

====
